---- MODULE Spec2Model ----
(***************************************************************************)
(* discord-live-scribe, src/src/main.py: the capture sink that forwards    *)
(* voice frames to the Redis stream "audio", the end-of-recording flush,   *)
(* and the STT worker that drains the stream with a cursor.                *)
(*                                                                         *)
(* The Redis server is the ordered log: XADD assigns ids "<ms>-<seq>",     *)
(* XREAD returns the first entry whose id is greater than the one given.   *)
(* Ids are modelled as pairs <<ms, seq>> compared lexicographically.       *)
(***************************************************************************)
EXTENDS Integers, Sequences, FiniteSets, TLC

\* ------------------------------------------------------------------ bounds
\* onFrame invocations (PCMStreamSink.write calls) in one behaviour
MaxFrames == 3

\* ------------------------------------------------------------------ values
\* speaker ids (discord.User.id)
Users == {7, 42}
\* the frames the voice client delivers: <<speaker id, payload>>, a payload being
\* bytes (one number per byte)
FrameInputs == {<<7, <<0>>>>, <<42, <<255, 0>>>>}

\* Optional[...]: None, or one value
None == <<>>
Some(x) == <<x>>

\* the first element's index of a non-empty set of indices
MinOf(S) == CHOOSE i \in S : \A j \in S : i <= j

\* ---------------------------------------------------------------- encoding
\* str(n) for n >= 0, as the ASCII codes of its decimal digits
RECURSIVE Str(_)
Str(n) == IF n < 10 THEN <<48 + n>> ELSE Str(n \div 10) \o <<48 + (n % 10)>>

\* redis-py sends a str field name as bytes; read() turns it back with k.decode()
EncodeKey(k) == <<"bytes", k>>
DecodeKey(b) == b[2]
EncodeFields(f) == [b \in {EncodeKey(k) : k \in DOMAIN f} |-> f[DecodeKey(b)]]
DecodeFields(f) == [k \in {DecodeKey(b) : b \in DOMAIN f} |-> f[EncodeKey(k)]]

\* b"".join(chunk.pcm for chunk in audio)
RECURSIVE Join(_)
Join(audio) == IF audio = <<>> THEN <<>> ELSE Head(audio) \o Join(Tail(audio))

\* ------------------------------------------------------------------- redis
\* the cursor a worker starts with, "0-0"
BeginId == <<0, 0>>
IdLess(a, b) == a[1] < b[1] \/ (a[1] = b[1] /\ a[2] < b[2])

\* the id XADD * generates: every XADD falls in a later millisecond than the last
\* id of the stream, so the sequence part stays 0 ("1-0", "2-0", ...)
LastId(s) == IF s = <<>> THEN BeginId ELSE s[Len(s)].id
NextId(s) == <<LastId(s)[1] + 1, 0>>

\* mutant of Xadd: XADD MAXLEN 1, the stream keeps only its newest entry
XaddCapped(s, fields) == <<[id |-> NextId(s), fields |-> EncodeFields(fields)]>>

\* XADD stream * field value ...
Xadd(s, fields) == Append(s, [id |-> NextId(s), fields |-> EncodeFields(fields)])

\* mutant of Xread: the entry at last_id itself counts as new
XreadInclusive(s, last_id) ==
    LET later == {i \in 1..Len(s) : ~IdLess(s[i].id, last_id)}
    IN  IF later = {} THEN <<>> ELSE <<s[MinOf(later)]>>

\* XREAD COUNT 1 STREAMS stream last_id: at most one entry, the first after last_id
Xread(s, last_id) ==
    LET later == {i \in 1..Len(s) : IdLess(last_id, s[i].id)}
    IN  IF later = {} THEN <<>> ELSE <<s[MinOf(later)]>>

\* -------------------------------------------------------- RedisAudioStream
\* mutant of WriteFields: the payload is cut to whole 16-bit samples
WriteFieldsWholeSamples(user_id, pcm) ==
    [user_id |-> Str(user_id), pcm |-> SubSeq(pcm, 1, 2 * (Len(pcm) \div 2))]

\* write() with the speaker's field named speaker_id, run() still reading user_id
WriteFieldsSpeakerId(user_id, pcm) == [speaker_id |-> Str(user_id), pcm |-> pcm]

\* write(): the fields dict of one chunk
WriteFields(user_id, pcm) == [user_id |-> Str(user_id), pcm |-> pcm]

\* mutant of StreamWrite: the XADD is never issued
StreamWriteDropped(s, user_id, pcm) == s

\* write(): await self.redis.xadd(self.stream_name, fields)
StreamWrite(s, user_id, pcm) == Xadd(s, WriteFields(user_id, pcm))

\* mutant of StreamRead: of the entries after last_id, the newest is returned
StreamReadNewest(s, last_id) ==
    IF Xread(s, last_id) = <<>>
    THEN [id |-> last_id, data |-> None]
    ELSE [id |-> s[Len(s)].id, data |-> Some(DecodeFields(s[Len(s)].fields))]

\* mutant of StreamRead: an empty reply returns the default "0-0", not last_id
StreamReadResets(s, last_id) ==
    LET response == Xread(s, last_id)
    IN  IF response = <<>>
        THEN [id |-> BeginId, data |-> None]
        ELSE [id |-> response[1].id, data |-> Some(DecodeFields(response[1].fields))]

\* read(): (message_id, data) of the first entry after last_id, or (last_id, None)
StreamRead(s, last_id) ==
    LET response == Xread(s, last_id)
    IN  IF response = <<>>
        THEN [id |-> last_id, data |-> None]
        ELSE [id |-> response[1].id, data |-> Some(DecodeFields(response[1].fields))]

\* ---------------------------------------------------------------- STTWorker
\* transcribe(): the dummy result built from len(pcm)
TranscribeText(pcm) == <<Len(pcm), "bytes of audio">>

\* ------------------------------------------------------------------- state
VARIABLES
    proc,        \* main(): "start", "running", or ended by RuntimeError: "no_token", "redis_down"
    sinkBase,    \* the base class of PCMStreamSink: "fallback" (_RawDataSink) or "discord.sinks"
    stt,         \* what transcribe() runs: the "dummy" of the source, or the "inference" it stands for
    stream,      \* the Redis stream "audio": a sequence of [id, fields]
    origin,      \* history: who appended stream[i]: [kind, ref]
    session,     \* "none", "recording", "ended" (_after_recording returned), "aborted" (it raised)
    audio_data,  \* sink.audio_data as _after_recording found it: a sequence of <<user id, chunks>>
    frames,      \* history: the onFrame calls, in invocation order: [user, pcm, status]
    pc,          \* STTWorker.run: "unstarted", "idle", "reading", "sleeping", "extract",
                 \*                "transcribing", "reporting", "dead"
    last_id,     \* run()'s local last_id: the cursor
    data,        \* run()'s local data: None or Some(dict)
    text,        \* run()'s local text: None or Some(text)
    reported,    \* the lines printed: a sequence of [id (history), user_id, text]
    received,    \* history: the ids of the entries read() returned to run(), in order
    failed,      \* history: the ids of the entries whose transcribe() raised
    workerExc,   \* the exception that ended run(): "none", "KeyError", "ConnectionError", "TranscribeError"
    prevRun      \* history: None, or after a restart Some(s): s holds the id of the first entry
                 \*          the run before it received (empty when it received none)

vars == <<proc, sinkBase, stt, stream, origin, session, audio_data, frames,
          pc, last_id, data, text, reported, received, failed, workerExc, prevRun>>

captureVars == <<session, audio_data, frames>>
workerVars == <<pc, last_id, data, text, reported, received, failed, workerExc>>
buildVars == <<sinkBase, stt>>
histVars == <<prevRun>>

\* --------------------------------------------------------------- the stream
\* field maps of an entry appended before this process started (by an earlier run
\* or another producer): a well-formed one, one without pcm, one without user_id
PreFields == {WriteFields(7, <<0>>), [user_id |-> Str(7)], [pcm |-> <<0>>]}

\* what the stream "audio" holds when the process starts: nothing, or one such entry
PreStreams == {<<>>} \cup {Xadd(<<>>, f) : f \in PreFields}

\* history record of an append: "earlier" (before this process), "live" (ref: the
\* onFrame call), or "summary" (ref: the speaker id)
Origin(kind, ref) == [kind |-> kind, ref |-> ref]

\* ------------------------------------------------------------------- main()
InitCommon ==
    /\ proc = "start"
    /\ stream \in PreStreams
    /\ origin = [i \in 1..Len(stream) |-> Origin("earlier", 0)]
    /\ session = "none"
    /\ audio_data = <<>>
    /\ frames = <<>>
    /\ pc = "unstarted"
    /\ last_id = BeginId
    /\ data = None
    /\ text = None
    /\ reported = <<>>
    /\ received = <<>>
    /\ failed = {}
    /\ workerExc = "none"
    /\ prevRun = None

\* the process as the source builds it without discord.sinks: _RawDataSink, dummy transcribe
Init == InitCommon /\ sinkBase = "fallback" /\ stt = "dummy"

\* the same process with its two stand-ins replaced by what they stand for
InitOpen == InitCommon /\ sinkBase = "discord.sinks" /\ stt = "inference"

\* main() with create_task(worker.run()) moved above the ping: the worker runs
\* while the ping is awaited
MainWorkerBeforePing ==
    /\ proc = "start"
    /\ \E outcome \in {"ok", "no_token", "redis_down"} :
          /\ proc' = IF outcome = "ok" THEN "running" ELSE outcome
          /\ pc' = IF outcome = "no_token" THEN pc ELSE "idle"
    /\ UNCHANGED <<buildVars, histVars, stream, origin, captureVars,
                   last_id, data, text, reported, received, failed, workerExc>>

\* main(): token check, ping, then the worker task is created and the bot started;
\* a missing token or a failed ping raises RuntimeError before either
Main ==
    /\ proc = "start"
    /\ \E outcome \in {"ok", "no_token", "redis_down"} :
          IF outcome = "ok"
          THEN proc' = "running" /\ pc' = "idle"
          ELSE proc' = outcome /\ pc' = pc
    /\ UNCHANGED <<buildVars, histVars, stream, origin, captureVars,
                   last_id, data, text, reported, received, failed, workerExc>>

\* ------------------------------------------------------------ capture side
\* VoiceBot.join_and_record (one call in a run of the process): connect, then a
\* fresh PCMStreamSink (audio_data = {}) is handed to start_recording; RuntimeError
\* when the client cannot record
JoinAndRecord ==
    /\ proc = "running"
    /\ session = "none"
    /\ \E can_record \in BOOLEAN :
          IF can_record
          THEN /\ session' = "recording"
               /\ audio_data' = <<>>
          ELSE UNCHANGED <<session, audio_data>>
    /\ UNCHANGED <<proc, buildVars, histVars, stream, origin, frames, workerVars>>

\* PCMStreamSink.write is called with a frame: it calls stream.write and awaits the XADD.
\* Nothing is put into audio_data.
OnFrame(user, pcm) ==
    /\ proc = "running"
    /\ session = "recording"
    /\ Len(frames) < MaxFrames
    /\ frames' = Append(frames, [user |-> user, pcm |-> pcm, status |-> "pending"])
    /\ UNCHANGED <<proc, buildVars, histVars, stream, origin, session, audio_data, workerVars>>

\* the XADD of call i on a client with one shared connection: it waits behind the
\* worker's blocking XREAD
WriteReturnSharedConnection(i) ==
    /\ frames[i].status = "pending"
    /\ pc # "reading"
    /\ stream' = StreamWrite(stream, frames[i].user, frames[i].pcm)
    /\ origin' = Append(origin, Origin("live", i))
    /\ frames' = [frames EXCEPT ![i].status = "returned"]
    /\ UNCHANGED <<proc, buildVars, histVars, session, audio_data, workerVars>>

\* the awaited XADD of call i completes: the entry is in the stream, write returns None
WriteReturn(i) ==
    /\ frames[i].status = "pending"
    /\ stream' = StreamWrite(stream, frames[i].user, frames[i].pcm)
    /\ origin' = Append(origin, Origin("live", i))
    /\ frames' = [frames EXCEPT ![i].status = "returned"]
    /\ UNCHANGED <<proc, buildVars, histVars, session, audio_data, workerVars>>

\* the awaited XADD of call i raises (the server is unreachable): nothing catches it
\* in RedisAudioStream.write or PCMStreamSink.write, so the caller gets the exception
WriteRaise(i) ==
    /\ frames[i].status = "pending"
    /\ frames' = [frames EXCEPT ![i].status = "raised"]
    /\ UNCHANGED <<proc, buildVars, histVars, stream, origin, session, audio_data, workerVars>>

\* sink.audio_data when recording stops. _RawDataSink sets it to {} and nothing in
\* the source adds to it; with discord.sinks as the base it is whatever the library
\* left there: per user (dict order), a non-empty list of chunks.
Buffers ==
    { <<>>,
      << <<7, << <<0>> >> >> >>,
      << <<42, << <<0>>, <<255, 0>> >> >>, <<7, << <<255, 0>>, <<0>> >> >> >> }

SinkAudioData == IF sinkBase = "fallback" THEN {<<>>} ELSE Buffers

\* the loop of _after_recording over the first n items: one stream.write each
RECURSIVE FlushStream(_, _)
FlushStream(s, items) ==
    IF items = <<>> THEN s
    ELSE FlushStream(StreamWrite(s, items[1][1], Join(items[1][2])), Tail(items))

\* VoiceBot._after_recording(sink): one write per item of sink.audio_data, in dict
\* order; a write that raises ends the handler with the earlier items written
AfterRecording ==
    /\ proc = "running"
    /\ session = "recording"
    /\ \E ad \in SinkAudioData :
       \E n \in 0..Len(ad) :
          /\ audio_data' = ad
          /\ stream' = FlushStream(stream, SubSeq(ad, 1, n))
          /\ origin' = origin \o [i \in 1..n |-> Origin("summary", ad[i][1])]
          /\ session' = IF n = Len(ad) THEN "ended" ELSE "aborted"
    /\ UNCHANGED <<proc, buildVars, histVars, frames, workerVars>>

\* -------------------------------------------------------------- STTWorker.run
\* top of the loop: self.stream.read(last_id) is called and the XREAD (block=1000) awaited
ReadCall ==
    /\ pc = "idle"
    /\ pc' = "reading"
    /\ UNCHANGED <<proc, buildVars, histVars, stream, origin, captureVars,
                   last_id, data, text, reported, received, failed, workerExc>>

\* the XREAD answers (an entry as soon as one lies after last_id, else the empty
\* reply of the timeout); last_id, data = <what read returned>; if data is None the
\* worker goes to asyncio.sleep(0.1)
ReadReturn ==
    /\ pc = "reading"
    /\ LET r == StreamRead(stream, last_id)
       IN  /\ last_id' = r.id
           /\ data' = r.data
           /\ pc' = IF r.data = None THEN "sleeping" ELSE "extract"
           /\ received' = IF r.data = None THEN received ELSE Append(received, r.id)
    /\ UNCHANGED <<proc, buildVars, histVars, stream, origin, captureVars,
                   text, reported, failed, workerExc>>

\* the XREAD raises (the server is unreachable): nothing in run() catches it
ReadRaise ==
    /\ pc = "reading"
    /\ pc' = "dead"
    /\ workerExc' = "ConnectionError"
    /\ UNCHANGED <<proc, buildVars, histVars, stream, origin, captureVars,
                   last_id, data, text, reported, received, failed>>

\* the empty read ends the loop (break where the source has continue): run() returns
WakeEndsLoop ==
    /\ pc = "sleeping"
    /\ pc' = "dead"
    /\ UNCHANGED <<proc, buildVars, histVars, stream, origin, captureVars,
                   last_id, data, text, reported, received, failed, workerExc>>

\* asyncio.sleep(0.1) is over: continue
Wake ==
    /\ pc = "sleeping"
    /\ pc' = "idle"
    /\ UNCHANGED <<proc, buildVars, histVars, stream, origin, captureVars,
                   last_id, data, text, reported, received, failed, workerExc>>

\* pcm = data["pcm"]; user_id = data["user_id"]: a missing key raises KeyError,
\* which nothing in run() catches
HasKeys(d) == "pcm" \in DOMAIN d /\ "user_id" \in DOMAIN d

Extract ==
    /\ pc = "extract"
    /\ IF HasKeys(data[1])
       THEN pc' = "transcribing" /\ workerExc' = workerExc
       ELSE pc' = "dead" /\ workerExc' = "KeyError"
    /\ UNCHANGED <<proc, buildVars, histVars, stream, origin, captureVars,
                   last_id, data, text, reported, received, failed>>

\* what awaiting transcribe(pcm) can give: the dummy of the source always returns;
\* the inference it stands for may also raise
TranscribeOutcomes(pcm) ==
    {[raised |-> FALSE, text |-> Some(TranscribeText(pcm))]}
        \cup (IF stt = "inference" THEN {[raised |-> TRUE, text |-> None]} ELSE {})

\* text = await self.transcribe(pcm): an exception is not caught in run()
Transcribe ==
    /\ pc = "transcribing"
    /\ \E out \in TranscribeOutcomes(data[1].pcm) :
          IF out.raised
          THEN /\ pc' = "dead"
               /\ workerExc' = "TranscribeError"
               /\ failed' = failed \cup {last_id}
               /\ text' = text
          ELSE /\ pc' = "reporting"
               /\ text' = out.text
               /\ UNCHANGED <<workerExc, failed>>
    /\ UNCHANGED <<proc, buildVars, histVars, stream, origin, captureVars,
                   last_id, data, reported, received>>

\* a worker that deletes the entry it has reported (XDEL) before the next iteration
ReportDeletes ==
    /\ pc = "reporting"
    /\ reported' = Append(reported, [id |-> last_id, user_id |-> data[1].user_id,
                                     text |-> text[1]])
    /\ pc' = "idle"
    /\ LET Kept(e) == e.id # last_id
       IN  stream' = SelectSeq(stream, Kept)
    /\ UNCHANGED <<proc, buildVars, histVars, origin, captureVars,
                   last_id, data, text, received, failed, workerExc>>

\* a worker that prints the line of an entry twice
ReportTwice ==
    /\ pc = "reporting"
    /\ LET line == [id |-> last_id, user_id |-> data[1].user_id, text |-> text[1]]
       IN  reported' = reported \o <<line, line>>
    /\ pc' = "idle"
    /\ UNCHANGED <<proc, buildVars, histVars, stream, origin, captureVars,
                   last_id, data, text, received, failed, workerExc>>

\* print(f"{user_id}: {text}"), then the next iteration
Report ==
    /\ pc = "reporting"
    /\ reported' = Append(reported, [id |-> last_id, user_id |-> data[1].user_id,
                                     text |-> text[1]])
    /\ pc' = "idle"
    /\ UNCHANGED <<proc, buildVars, histVars, stream, origin, captureVars,
                   last_id, data, text, received, failed, workerExc>>

\* ------------------------------------------------------------ restart
\* the process restarted with a cursor kept across runs (last_id read back from a store)
RestartKeepsCursor ==
    /\ proc # "start"
    /\ proc' = "start"
    /\ pc' = "unstarted"
    /\ last_id' = last_id
    /\ data' = None /\ text' = None
    /\ reported' = <<>> /\ received' = <<>> /\ failed' = {} /\ workerExc' = "none"
    /\ session' = "none" /\ audio_data' = <<>>
    /\ frames' = [i \in 1..Len(frames) |->
                    IF frames[i].status = "pending"
                    THEN [frames[i] EXCEPT !.status = "lost"] ELSE frames[i]]
    /\ prevRun' = Some(SubSeq(received, 1, MinOf({1, Len(received)})))
    /\ UNCHANGED <<buildVars, stream, origin>>

\* the process is stopped and asyncio.run(main()) started anew: every object of the
\* old process is gone (its pending writes with it), the stream in Redis stays, and
\* the new run() begins with last_id = "0-0"
Restart ==
    /\ proc # "start"
    /\ proc' = "start"
    /\ pc' = "unstarted"
    /\ last_id' = BeginId
    /\ data' = None /\ text' = None
    /\ reported' = <<>> /\ received' = <<>> /\ failed' = {} /\ workerExc' = "none"
    /\ session' = "none" /\ audio_data' = <<>>
    /\ frames' = [i \in 1..Len(frames) |->
                    IF frames[i].status = "pending"
                    THEN [frames[i] EXCEPT !.status = "lost"] ELSE frames[i]]
    /\ prevRun' = Some(SubSeq(received, 1, MinOf({1, Len(received)})))
    /\ UNCHANGED <<buildVars, stream, origin>>

\* the ids of a stream, and the field map of stream[i] as read() decodes it
Ids(s) == {s[i].id : i \in 1..Len(s)}
Fields(i) == DecodeFields(stream[i].fields)

\* ---------------------------------------------------------- specifications
Next ==
    \/ Main
    \/ JoinAndRecord
    \/ \E f \in FrameInputs : OnFrame(f[1], f[2])
    \/ \E i \in 1..Len(frames) : WriteReturn(i)
    \/ \E i \in 1..Len(frames) : WriteRaise(i)
    \/ AfterRecording
    \/ ReadCall
    \/ ReadReturn
    \/ ReadRaise
    \/ Wake
    \/ Extract
    \/ Transcribe
    \/ Report

\* the process as the source builds it (no discord.sinks, dummy transcribe)
Spec == Init /\ [][Next]_vars

\* the process with discord.sinks as the sink's base and inference behind transcribe
SpecOpen == InitOpen /\ [][Next]_vars

\* the process with discord.sinks as the sink's base and the dummy transcribe, started
\* on a stream that holds nothing yet
InitSink == InitCommon /\ stream = <<>> /\ sinkBase = "discord.sinks" /\ stt = "dummy"
SpecSink == InitSink /\ [][Next]_vars

\* the process of Spec, stopped and started again by its operator
NextRestart == Next \/ Restart
SpecRestart == Init /\ [][NextRestart]_vars

\* the process of Spec while Redis stays reachable (no XADD, XREAD or ping raises)
\* and every entry found in the stream at the start is well-formed; the event loop
\* runs every task that is ready, so a step the worker can take is taken
InitLive == Init /\ \A i \in 1..Len(stream) : HasKeys(Fields(i))

MainLive == Main /\ proc' # "redis_down"

WorkerNext == ReadCall \/ ReadReturn \/ Wake \/ Extract \/ Transcribe \/ Report

NextLive ==
    \/ MainLive
    \/ JoinAndRecord
    \/ \E f \in FrameInputs : OnFrame(f[1], f[2])
    \/ \E i \in 1..Len(frames) : WriteReturn(i)
    \/ AfterRecording
    \/ WorkerNext

SpecLive == InitLive /\ [][NextLive]_vars /\ WF_vars(WorkerNext)

\* ------------------------------------------------------------------ claims

\* what the worker has received is the first entries of the stream, ids increasing
C1_ReceivedIsPrefix ==
    /\ Len(received) <= Len(stream)
    /\ \A i \in 1..Len(received) : received[i] = stream[i].id
    /\ \A i, j \in 1..Len(received) : i < j => IdLess(received[i], received[j])

\* a read comes back empty only when every entry has been received
C1_EmptyOnlyWhenDrained ==
    (pc = "reading" /\ pc' = "sleeping") => Len(received) = Len(stream)

\* C1: a worker that starts at "0-0" and feeds each returned cursor into the next
\* read receives the entries in append order, each exactly once, with strictly
\* increasing ids: what it has received is always the first entries of the stream,
\* and a read comes back empty only when every entry has been received.
C1_ReadsInAppendOrder == []C1_ReceivedIsPrefix /\ [][C1_EmptyOnlyWhenDrained]_vars

\* C1 witness: three entries are in the stream, all three were received, and the
\* read after them came back empty
C1_Witness == Len(stream) = 3 /\ Len(received) = 3 /\ pc = "sleeping"

\* the indices of speaker u's entries among the first n of the stream, in order
IdsOfSpeaker(u, n) ==
    LET Mine(i) == "user_id" \in DOMAIN Fields(i) /\ Fields(i).user_id = Str(u)
    IN  SelectSeq([i \in 1..n |-> i], Mine)

\* the ids of the lines reported for speaker u, in order
ReportedOfSpeaker(u) ==
    LET Mine(r) == r.user_id = Str(u)
        mine == SelectSeq(reported, Mine)
    IN  [i \in 1..Len(mine) |-> mine[i].id]

\* C2: frames of several speakers appended interleaved are transcribed and reported
\* in the one global append order, each line carrying its frame's speaker and the
\* text of its frame's payload; per speaker, the reported lines are the first of
\* that speaker's entries in append order.
C2_ReportedInAppendOrder ==
    /\ Len(reported) <= Len(stream)
    /\ \A i \in 1..Len(reported) :
          /\ reported[i].id = stream[i].id
          /\ origin[i].kind = "live" =>
                /\ reported[i].user_id = Str(frames[origin[i].ref].user)
                /\ reported[i].text = <<Len(frames[origin[i].ref].pcm), "bytes of audio">>
    /\ \A u \in Users :
          LET mine == IdsOfSpeaker(u, Len(stream))
              told == ReportedOfSpeaker(u)
          IN  /\ Len(told) <= Len(mine)
              /\ \A i \in 1..Len(told) : told[i] = stream[mine[i]].id

\* C2 witness: three frames A1, B1, A2 of two speakers were appended in that order
\* and all three have been reported
C2_Witness ==
    /\ Len(stream) = 3 /\ Len(reported) = 3
    /\ \A i \in 1..3 : origin[i].kind = "live"
    /\ frames[origin[1].ref].user = 7
    /\ frames[origin[2].ref].user = 42
    /\ frames[origin[3].ref].user = 7

\* C3: on an entry that lacks pcm or the speaker id the worker keeps the cursor at
\* that entry, does not transcribe, and returns to Idle to read on.
C3_MalformedIsSkipped ==
    [][(pc = "extract" /\ ~HasKeys(data[1]) /\ pc' # pc)
          => (pc' = "idle" /\ last_id' = last_id /\ text' = text /\ reported' = reported)]_vars

\* C4: when transcribe raises, the worker keeps the cursor at that entry, does not
\* retry it, and returns to Idle to read on.
C4_FailureIsSkipped ==
    [][(pc = "transcribing" /\ failed' # failed)
          => (pc' = "idle" /\ last_id' = last_id /\ reported' = reported)]_vars

\* the step in which call i ends: returned with its entry appended, or raised
C5_CallOutcome(i) ==
    /\ (frames[i].status = "pending" /\ frames'[i].status = "returned") =>
          /\ Len(stream') = Len(stream) + 1
          /\ SubSeq(stream', 1, Len(stream)) = stream
          /\ DecodeFields(stream'[Len(stream')].fields)
                = [user_id |-> Str(frames[i].user), pcm |-> frames[i].pcm]
    /\ (frames[i].status = "pending" /\ frames'[i].status = "raised") => stream' = stream

\* the calls that returned are the calls that have an entry, one each
C5_ReturnedIsAppended ==
    \A i \in 1..Len(frames) :
       LET mine == {k \in 1..Len(stream) : origin[k] = Origin("live", i)}
       IN  /\ frames[i].status = "returned" => Cardinality(mine) = 1
           /\ frames[i].status # "returned" => mine = {}

\* C5: an onFrame call either returns with exactly one entry {speaker, pcm of the
\* frame} appended (the stream one longer, nothing else in it changed), or raises
\* with the stream unchanged; a call that returned has its entry in the stream.
C5_AppendOrPropagate ==
    /\ []C5_ReturnedIsAppended
    /\ [][\A i \in 1..Len(frames) : C5_CallOutcome(i)]_vars

\* C5 witness: one call has returned and another has raised
C5_Witness ==
    \E i, j \in 1..Len(frames) : frames[i].status = "returned" /\ frames[j].status = "raised"

\* the payloads of the frames speaker u delivered, in receipt order
FramesOf(u) ==
    LET Mine(f) == f.user = u
        mine == SelectSeq(frames, Mine)
    IN  [i \in 1..Len(mine) |-> mine[i].pcm]

\* C6: when the recording has ended (every onFrame call having returned), every
\* speaker who delivered a frame has exactly one consolidated entry, holding that
\* speaker's frames concatenated in receipt order, and a speaker who delivered none
\* has no consolidated entry.
C6_OneConsolidatedPerSpeaker ==
    (session = "ended" /\ \A i \in 1..Len(frames) : frames[i].status = "returned") =>
       \A u \in Users :
          LET summary == {k \in 1..Len(stream) : origin[k] = Origin("summary", u)}
          IN  IF FramesOf(u) = <<>>
              THEN summary = {}
              ELSE /\ Cardinality(summary) = 1
                   /\ \A k \in summary : Fields(k).pcm = Join(FramesOf(u))

\* C7: a consolidated entry can be told from every live entry by the entry alone:
\* no consolidated entry has the fields of a live entry.
C7_ConsolidatedIsTagged ==
    \A i, j \in 1..Len(stream) :
       (origin[i].kind = "summary" /\ origin[j].kind = "live")
          => stream[i].fields # stream[j].fields

\* one step of the system, seen from the cursor
C8_Step ==
    /\ last_id' # last_id =>
          /\ pc = "reading" /\ pc' = "extract"
          /\ Xread(stream, last_id) # <<>>
          /\ last_id' = Xread(stream, last_id)[1].id
    /\ (pc = "reading" /\ pc' = "extract") =>
          /\ last_id' # last_id
          /\ data' = Some(DecodeFields(Xread(stream, last_id)[1].fields))
    /\ (pc = "reading" /\ pc' = "sleeping") =>
          /\ Xread(stream, last_id) = <<>>
          /\ last_id' = last_id /\ data' = None
          /\ text' = text /\ reported' = reported
    /\ (pc = "sleeping" /\ pc' # pc) => (pc' = "idle" /\ last_id' = last_id)
    /\ (pc = "idle" /\ pc' # pc) => (pc' = "reading" /\ last_id' = last_id)

\* C8: the cursor changes only when a read returns an entry, and then to that
\* entry's id; a read that returns nothing leaves the cursor as it was, invokes no
\* transcription, and the worker sleeps, returns to Idle and reads again with the
\* same cursor.
C8_CursorMovesOnlyOnEntry == [][C8_Step]_vars

\* C8 witness: the worker has advanced past an entry and a later read timed out
C8_Witness == pc = "sleeping" /\ last_id # BeginId /\ Len(received) >= 2

\* the cursor values a reader can hold
Cursors == {BeginId} \cup Ids(stream)

\* every read that returned an entry returns the same after the step
C9_Step ==
    \A c \in Cursors :
       Xread(stream, c) # <<>> => StreamRead(stream', c) = StreamRead(stream, c)

\* C9: read with an unmoved cursor returns the same entry again: for every cursor
\* with an entry after it, whatever step the system takes (appends included), read
\* from that cursor returns afterwards what it returned before.
C9_ReadIdempotent == [][C9_Step]_vars

\* C9 witness: an entry lies after the worker's cursor, the worker has read from
\* that cursor, and two more entries were appended behind the first
C9_Witness ==
    /\ pc = "reading"
    /\ Xread(stream, last_id) # <<>>
    /\ IdLess(Xread(stream, last_id)[1].id, LastId(stream))
    /\ Len(stream) >= 3

\* the number a string of ASCII digits denotes
RECURSIVE DecimalValue(_)
DecimalValue(b) ==
    IF b = <<>> THEN 0 ELSE 10 * DecimalValue(SubSeq(b, 1, Len(b) - 1)) + (b[Len(b)] - 48)

\* b is the decimal string of n: digits only, no leading zero
IsDecimalOf(b, n) ==
    /\ Len(b) >= 1
    /\ \A i \in 1..Len(b) : b[i] \in 48..57
    /\ (Len(b) > 1 => b[1] # 48)
    /\ DecimalValue(b) = n

\* the cursor just before entry k
CursorBefore(k) == IF k = 1 THEN BeginId ELSE stream[k - 1].id

\* C10: round trip: for every frame written, read from the cursor just before its
\* entry returns that entry with pcm equal to the pcm written, byte for byte, and a
\* speaker-id value that is the decimal string of the speaker id written.
C10_RoundTrip ==
    \A k \in 1..Len(stream) :
       origin[k].kind = "live" =>
          LET f == frames[origin[k].ref]
              r == StreamRead(stream, CursorBefore(k))
          IN  /\ r.id = stream[k].id
              /\ r.data # None
              /\ DOMAIN r.data[1] = {"user_id", "pcm"}
              /\ r.data[1].pcm = f.pcm
              /\ IsDecimalOf(r.data[1].user_id, f.user)

\* C10 witness: the frames (42, 0xFF 0x00) and (7, 0x00) are both in the stream
C10_Witness ==
    /\ \E k \in 1..Len(stream) :
          origin[k].kind = "live" /\ frames[origin[k].ref].user = 42
    /\ \E k \in 1..Len(stream) :
          origin[k].kind = "live" /\ frames[origin[k].ref].pcm = <<255, 0>>
    /\ \E k \in 1..Len(stream) :
          origin[k].kind = "live" /\ frames[origin[k].ref].pcm = <<0>>

\* a run() that begins does so with last_id = "0-0" and nothing received or reported
C11_NewRunStartsAtBeginning ==
    (proc # "start" /\ proc' = "start")
        => (last_id' = BeginId /\ received' = <<>> /\ reported' = <<>>)

\* in every run, what was received and what was reported are the first entries of
\* the stream, in append order
C11_RunTakesFirstEntries ==
    /\ Len(reported) <= Len(received) /\ Len(received) <= Len(stream)
    /\ \A i \in 1..Len(received) : received[i] = stream[i].id
    /\ \A i \in 1..Len(reported) : reported[i].id = stream[i].id

\* after a restart a read comes back empty only when the whole stream was received again
C11_EmptyOnlyAfterAll ==
    (prevRun # None /\ pc = "reading" /\ pc' = "sleeping") => Len(received) = Len(stream)

\* C11: a restarted worker begins with the cursor at "0-0" and reads and transcribes
\* again every entry still in the stream, those the run before it had consumed
\* included, in the original append order.
C11_RestartRereadsAll ==
    /\ []C11_RunTakesFirstEntries
    /\ [][C11_NewRunStartsAtBeginning]_vars
    /\ [][C11_EmptyOnlyAfterAll]_vars

\* C11 witness: the run before the restart had received the first entry, and the
\* new run has received and reported all three entries of the stream again and
\* then found nothing more
C11_Witness ==
    /\ Len(stream) = 3 /\ Len(received) = 3 /\ Len(reported) = 3
    /\ prevRun = Some(<<stream[1].id>>)
    /\ pc = "sleeping"

\* once main() has ended on the failed ping, nothing of the process exists: no
\* worker, no session, no onFrame call, nothing read, nothing appended by it
C12_NothingStarted ==
    proc = "redis_down" =>
        /\ pc = "unstarted" /\ last_id = BeginId /\ received = <<>> /\ reported = <<>>
        /\ session = "none" /\ frames = <<>>
        /\ \A i \in 1..Len(stream) : origin[i].kind = "earlier"

\* and no step changes that
C12_NothingEverIssued ==
    proc = "redis_down" =>
        (proc' = proc /\ stream' = stream /\ pc' = pc /\ frames' = frames /\ session' = session)

\* C12: when the ping fails at startup, main() ends with an error before the worker
\* task is created and before the bot is started, so no append and no read is ever
\* issued by the process.
C12_FailedPingStartsNothing == []C12_NothingStarted /\ [][C12_NothingEverIssued]_vars

\* C12 witness: the ping failed while an entry was waiting in the stream, and it
\* stays unread
C12_Witness == proc = "redis_down" /\ Len(stream) = 1 /\ pc = "unstarted"

\* C13: an exception that ends run() ends the process too, so that once the worker
\* is dead the capture side appends nothing more to the stream.
C13_WorkerDeathStopsCapture ==
    [][pc = "dead" => (stream' = stream /\ frames' = frames)]_vars

\* whatever run() is doing, a frame handed to the recording sink is accepted and
\* the XADD of every pending call can complete
C14_CaptureCanStep ==
    /\ (proc = "running" /\ session = "recording" /\ Len(frames) < MaxFrames)
          => \A f \in FrameInputs : ENABLED OnFrame(f[1], f[2])
    /\ \A i \in 1..Len(frames) :
          frames[i].status = "pending" => ENABLED WriteReturn(i)

\* an entry appended while the worker waits with nothing after its cursor is what
\* the XREAD for that cursor answers
C14_AppendedIsNextAnswer ==
    (pc \in {"idle", "reading", "sleeping"} /\ Xread(stream, last_id) = <<>>
        /\ stream' # stream)
        => (pc' = pc /\ last_id' = last_id
            /\ Xread(stream', last_id') = <<stream'[Len(stream) + 1]>>)

\* a read that comes back while an entry lies after the cursor comes back with it
C14_WaitingEntryIsReturned ==
    (pc = "reading" /\ Xread(stream, last_id) # <<>> /\ pc' # pc /\ pc' # "dead")
        => (pc' = "extract" /\ last_id' = Xread(stream, last_id)[1].id)

\* C14: the worker never blocks the capture path: in every state of the worker a
\* frame can be accepted and a pending append can complete; and an entry appended
\* while the worker's read waits is returned by that read or by the next one.
C14_CaptureNeverBlocked ==
    /\ []C14_CaptureCanStep
    /\ [][C14_AppendedIsNextAnswer]_vars
    /\ [][C14_WaitingEntryIsReturned]_vars

\* C14 witness: while the worker's XREAD is outstanding, a frame's entry has been
\* appended and lies after the cursor, not yet received, and a second call's
\* append is pending
C14_Witness ==
    /\ pc = "reading" /\ received = <<>>
    /\ Len(stream) = 1 /\ origin[1].kind = "live"
    /\ Xread(stream, last_id) = <<stream[1]>>
    /\ \E i \in 1..Len(frames) : frames[i].status = "pending"

\* C15: the entries of two onFrame calls lie in the stream in the order in which
\* the calls were made, also when the calls overlap: the call made first has the
\* smaller id.
C15_InvocationOrderKept ==
    \A j, k \in 1..Len(stream) :
        (origin[j].kind = "live" /\ origin[k].kind = "live"
            /\ origin[j].ref < origin[k].ref)
        => IdLess(stream[j].id, stream[k].id)

\* a step that changes the cursor is the return of the worker's read and changes
\* nothing of the capture side or the stream; a step of the capture side or an
\* append changes nothing of the worker; a step of the worker leaves the stream alone
C16_Step ==
    /\ last_id' # last_id
          => (pc = "reading" /\ pc' = "extract"
              /\ captureVars' = captureVars /\ stream' = stream)
    /\ (captureVars' # captureVars \/ stream' # stream) => workerVars' = workerVars
    /\ workerVars' # workerVars => (stream' = stream /\ origin' = origin)

\* C16: only the worker touches its cursor: no onFrame, no end-of-session step and
\* no append changes it, and no step of the worker appends to the stream or alters
\* its entries.
C16_CursorOwnedByWorker == [][C16_Step]_vars

\* C16 witness: the session has ended, two frames were appended, and the worker has
\* moved its cursor to the second
C16_Witness ==
    /\ session = "ended"
    /\ Len(stream) = 2 /\ origin[1].kind = "live" /\ origin[2].kind = "live"
    /\ last_id = stream[2].id

\* C17: when _after_recording has returned, the sink's per-speaker buffers are
\* empty, so that its loop run once more over the same sink appends no entry.
C17_BuffersClearedAfterFlush ==
    session = "ended" =>
        (audio_data = <<>> /\ FlushStream(stream, audio_data) = stream)

\* the speaker of the entry the capture side appended as stream[k]
SpeakerOf(k) == IF origin[k].kind = "live" THEN frames[origin[k].ref].user ELSE origin[k].ref

\* the entries appended by the capture side: live frames and consolidated ones
CaptureEntries == {k \in 1..Len(stream) : origin[k].kind \in {"live", "summary"}}

MaxStream == MaxFrames + 1

\* the k-th entry of the stream, once appended, gets reported
C19_EveryEntryReported ==
    \A k \in 1..MaxStream :
        (proc = "running" /\ Len(stream) >= k)
            ~> (Len(reported) >= k /\ reported[k].id = stream[k].id)

\* no entry is reported twice: the k-th line is the line of the k-th entry
C19_ReportedOnce ==
    /\ Len(reported) <= Len(stream)
    /\ \A k \in 1..Len(reported) :
          /\ reported[k].id = stream[k].id
          /\ reported[k].text = TranscribeText(Fields(k).pcm)
    /\ \A j, k \in 1..Len(reported) : j # k => reported[j].id # reported[k].id

\* C19: when the worker task is scheduled fairly, Redis stays reachable, every
\* entry is well-formed and transcribe does not fail, every entry appended to the
\* stream is eventually read, transcribed and reported, exactly once, however the
\* appends interleave with the worker's steps, and the worker never ends.
C19_EveryEntryEventuallyReported ==
    /\ C19_EveryEntryReported
    /\ []C19_ReportedOnce
    /\ [](pc # "dead")

\* C19 witness: an entry found at the start and three frames appended while the
\* worker ran have all been reported, and the worker is waiting for more
C19_Witness ==
    /\ Len(stream) = 4 /\ origin[1].kind = "earlier"
    /\ Len(reported) = 4
    /\ pc = "sleeping"

\* the entries of the stream with an id at most c
UpTo(c) == {k \in 1..Len(stream) : ~IdLess(c, stream[k].id)}

\* the cursor is "0-0" or the id of an entry of the stream, it is not beyond the
\* newest id, and no more lines are reported than entries lie at or before it
C20_CursorInStream ==
    /\ last_id \in Cursors
    /\ ~IdLess(LastId(stream), last_id)
    /\ Len(reported) <= Cardinality(UpTo(last_id))

\* within one run of the worker the cursor does not go back
C20_CursorNotBack == proc' # "start" => ~IdLess(last_id', last_id)

\* C20: in every reachable state the worker's cursor is "0-0" or the id of an entry
\* that is in the stream; it never exceeds the largest appended id, never decreases
\* during one run of the worker, and the number of reported results never exceeds
\* the number of entries with an id at most the cursor.
C20_CursorInvariant == []C20_CursorInStream /\ [][C20_CursorNotBack]_vars

\* C20 witness: of three entries the worker has read and reported two; its cursor
\* is the id of the second, below the newest id
C20_Witness ==
    /\ Len(stream) = 3 /\ last_id = stream[2].id
    /\ Len(reported) = 2 /\ pc = "idle"

====
